---- MODULE Spec2Model ----
(***************************************************************************)
(* Verification model of the accumulation backtest simulators              *)
(* (analyzer.py / backtester.py: backtest_weekly_investment), of the       *)
(* bounded-horizon window analysis (analyzer.py:                           *)
(* analyze_drawdown_and_gain), of the unbounded-horizon analysis           *)
(* (analyzer_max_drawdown.py: analyze_max_negative_gain, fed by            *)
(* data_fetcher.py: clean_data), of the threshold derivation of            *)
(* run_analysis, of the cross-instrument normalization                     *)
(* (standardize_max_drawdown) and of the instrument loops of               *)
(* run_all_analyses and main.  Each part has its own specification: Spec,  *)
(* SpecWindow, SpecWorst, SpecThresholds, SpecNormalize, SpecPipeline.     *)
(*                                                                         *)
(* Numbers are exact fixed-point integers; a value is rounded only where   *)
(* the code rounds it:                                                     *)
(*   prices            tenths of a currency unit       (103.1 -> 1031)     *)
(*   lot sizes         hundredths of a lot             (0.01  -> 1)        *)
(*   cash amounts      1e-5 currency units             (10.0  -> 1000000)  *)
(*   tp_percent, std   whole percents                                      *)
(*   coeff             hundredths                      (0.01  -> 1)        *)
(*   dates             day numbers, day 0 a Monday; a week is named by the *)
(*                     day number of its Monday                            *)
(* The parameter sets are chosen so that every take-profit amount is a     *)
(* whole number of cash units; binary floating-point error is not modelled.*)
(***************************************************************************)
EXTENDS Integers, Sequences, FiniteSets, TLC

VARIABLES
    variant,               \* "daily" (analyzer.py) or "weekly" (backtester.py)
    arg,                   \* the call's arguments
    pc,                    \* "loop", "post", "caller", "done"
    cursor,                \* date (daily) / week (weekly) of the last input consumed
    nrows,                 \* number of input rows / week groups consumed
    row,                   \* the loop variable: the row of the current iteration
    branch,                \* where the last iteration of the loop body ended
    cash_invest,
    cash_saving,
    cash_saving_interest,
    trade_prices,
    lot_sizes,
    history,
    current_week,
    stopped_early,
    ret,                   \* the returned tuple
    raised,                \* exception raised, "none" if none
    df_len,                \* rows of the date-filtered frame seen so far
    wdata,                 \* window analysis: the frame (Date, Close, Price per row)
    wcolumns,              \* window analysis: which of "Close", "Price" the frame has
    wpass,                 \* window analysis: 1 on the first run, 2 on the rerun
    first_drawdowns,       \* window analysis: Max_Drawdown as the first run returned it
    first_gains,           \* window analysis: Max_Gain as the first run returned it
    wyears,                \* window analysis: horizon in days
    wpc,                   \* window analysis: "idle", "rows", "done", "skipped"
    wi,                    \* window analysis: next row of the loop
    max_drawdowns,
    max_gains,
    uraw,                  \* unbounded analysis: the prices as fetched, in Date order
    udata,                 \* unbounded analysis: data["Price"] of the cleaned frame
    upc,                   \* unbounded analysis: "off", "raw", "clean", "rows", "done"
    ui,                    \* unbounded analysis: next index of the loop
    worst_losses,
    uret,                  \* unbounded analysis: the returned tuple
    uraised,               \* unbounded analysis: exception raised, "none" if none
    dd_column,             \* thresholds: df["Max_Drawdown"], whole percents or NaN
    std_multiplier,        \* thresholds: in hundredths
    tpc,                   \* thresholds: "off", "column", "thresholds", "called"
    dd_thresh,             \* thresholds: in tenths of a percent, or NaN
    std,                   \* thresholds: the std argument of the backtest call
    worst_drawdown_dict,   \* normalization: Symbol -> Worst Drawdown of the summary
    df_final,              \* normalization: rows (Symbol, Date, Max_Drawdown)
    npc,                   \* normalization: "off", "rows", "mean", "done"
    ni,                    \* normalization: next row of the apply
    standardized,          \* normalization: the Standardized_Drawdown column so far
    df_drawdown_avg,       \* normalization: Date -> (sum, count) of the group mean
    nraised,               \* normalization: exception raised, "none" if none
    entry,                 \* pipeline: "run_all_analyses" (analyzer.py) or "main" (main.py)
    symbol_list,           \* pipeline: per instrument its data and its coeff_map entry
    ppc,                   \* pipeline: "off", "loop", "done"
    pk,                    \* pipeline: index of the instrument the loop is at
    sim_calls,             \* pipeline: the coeff of every simulator invocation
    final_summary,
    praised                \* pipeline: exception raised, "none" if none

simVars == <<variant, arg, pc, cursor, nrows, row, branch, cash_invest, cash_saving,
             cash_saving_interest, trade_prices, lot_sizes, history, current_week,
             stopped_early, ret, raised, df_len>>
winVars == <<wdata, wcolumns, wpass, first_drawdowns, first_gains, wyears, wpc, wi,
             max_drawdowns, max_gains>>
worstVars == <<uraw, udata, upc, ui, worst_losses, uret, uraised>>
thrVars == <<dd_column, std_multiplier, tpc, dd_thresh, std>>
normVars == <<worst_drawdown_dict, df_final, npc, ni, standardized, df_drawdown_avg,
              nraised>>
pipeVars == <<entry, symbol_list, ppc, pk, sim_calls, final_summary, praised>>
extVars == <<worstVars, thrVars, normVars, pipeVars>>
vars == <<simVars, winVars, extVars>>

(***************************************************************************)
(* Bounds and input sets                                                   *)
(***************************************************************************)
MaxRows == 3               \* input rows (daily) or week groups (weekly) of a run

None == -1                 \* Python None (dates and weeks are >= 0)
NaN == -1000000            \* a missing price

Prices == {NaN, 0, 800, 1020, 1030, 1031}
DateSteps == {0, 1, 7}     \* gap in days between consecutive daily rows

\* initial_balance, invest_per_week in cash units; see the header for the rest.
Configs ==
    { [initial_balance |-> 98000000, invest_per_week |-> 2000000, tp_percent |-> 1,
       leverage |-> 1000, coeff |-> 100, std |-> 10, start_date |-> None, end_date |-> None],
      [initial_balance |-> 1000000, invest_per_week |-> 100000, tp_percent |-> 1,
       leverage |-> 1000, coeff |-> 1, std |-> 20, start_date |-> 1, end_date |-> None],
      [initial_balance |-> 0, invest_per_week |-> 20000000, tp_percent |-> 1,
       leverage |-> 1000, coeff |-> 100, std |-> 25, start_date |-> None, end_date |-> 8],
      [initial_balance |-> 0, invest_per_week |-> 0, tp_percent |-> 5,
       leverage |-> 2000, coeff |-> 100, std |-> 10, start_date |-> None, end_date |-> None],
      [initial_balance |-> 1000000, invest_per_week |-> 100000, tp_percent |-> 1,
       leverage |-> 1000, coeff |-> 1, std |-> 20, start_date |-> 9, end_date |-> 8] }

(***************************************************************************)
(* Arithmetic helpers                                                      *)
(***************************************************************************)
Max(a, b) == IF a >= b THEN a ELSE b

\* n/d rounded to the nearest integer, ties to even (Python's round), n >= 0, d > 0
RoundHalfEven(n, d) ==
    LET q == n \div d
        r == n % d
    IN  IF 2 * r < d THEN q
        ELSE IF 2 * r > d THEN q + 1
        ELSE IF q % 2 = 0 THEN q ELSE q + 1

\* floor(x * m / d) without forming x * m
MulDiv(x, m, d) == (x \div d) * m + ((x % d) * m) \div d

RECURSIVE SumSeq(_)
SumSeq(s) == IF s = <<>> THEN 0 ELSE Head(s) + SumSeq(Tail(s))

RECURSIVE DotSeq(_, _)
DotSeq(a, b) == IF a = <<>> THEN 0 ELSE Head(a) * Head(b) + DotSeq(Tail(a), Tail(b))

Week(d) == d - (d % 7)

(***************************************************************************)
(* The simulators' pure computations                                       *)
(***************************************************************************)
\* if pd.isna(price) or price <= 0: continue
IsSkipped(price) == price = NaN \/ price <= 0

\* the start_date / end_date filter on df["Date"]
InRange(date, a) ==
    /\ (a.start_date = None \/ date >= a.start_date)
    /\ (a.end_date = None \/ date <= a.end_date)

\* the deposit block placed before the skip test
PeriodOpenBeforeSkip(price, week, cur) == week # cur

\* the deposit block without its week test
PeriodOpenEveryRow(price, week, cur) == ~IsSkipped(price)

\* daily: the deposit block runs for a row that was not skipped and whose week differs
PeriodOpen(price, week, cur) == ~IsSkipped(price) /\ week # cur

\* max(round(cash_invest / (std * price * coeff), 2), 0.01), in hundredths of a lot
LotSize(cash, price, a) == Max(RoundHalfEven(cash, a.std * price * a.coeff), 1)

\* daily: price >= last_trade_price * (1 + tp_percent / 100)
TargetReached(price, last_trade_price, tp) == price * 100 >= last_trade_price * (100 + tp)

\* weekly: previous_price <= price * (1 + tp_percent / 100.0)
TargetReachedWeekly(price, previous_price, tp) == previous_price * 100 <= price * (100 + tp)

\* sum(p * l) / sum(l), kept as an exact fraction
AvgTradePrice(tps, ls) == [num |-> DotSeq(tps, ls), den |-> SumSeq(ls)]

\* tp_percent // 100 in place of tp_percent / 100
ProfitTPFloorDiv(tps, ls, a) ==
    LET avg == AvgTradePrice(tps, ls)
        exposure == (avg.num * SumSeq(ls)) \div avg.den
    IN  MulDiv(exposure * (a.tp_percent \div 100) * 100 * a.coeff, a.leverage, 1000)

\* last_trade_price in place of avg_trade_price
ProfitTPLastPrice(tps, ls, a) ==
    MulDiv(tps[Len(tps)] * SumSeq(ls) * a.tp_percent * a.coeff, a.leverage, 1000)

\* avg_trade_price * sum(lot_sizes) * (tp_percent / 100) * coeff * 100 * leverage / 1000
ProfitTP(tps, ls, a) ==
    LET avg == AvgTradePrice(tps, ls)
        exposure == (avg.num * SumSeq(ls)) \div avg.den
    IN  MulDiv(exposure * a.tp_percent * a.coeff, a.leverage, 1000)

\* the stop test against the average of the lots held before this step's lot
StopLossBeforeAppend(price, tps, ls, a) ==
    LET avg == AvgTradePrice(SubSeq(tps, 1, Len(tps) - 1), SubSeq(ls, 1, Len(ls) - 1))
    IN  price * 100 * avg.den < avg.num * (100 - a.std)

\* price < avg_trade_price * (1 - std / 100.0)
StopLoss(price, tps, ls, a) ==
    LET avg == AvgTradePrice(tps, ls)
    IN  price * 100 * avg.den < avg.num * (100 - a.std)

\* a close that keeps the most recent lot open
ClosedKeepLast(xs) == <<xs[Len(xs)]>>

\* trade_prices.clear(); lot_sizes.clear()   (weekly: list_trade_price, list_lot_size = [], [])
Closed(xs) == <<>>

\* weekly_rate = (1 + 0.05) ** (1 / 52) - 1, in parts per million
WeeklyRatePPM == 939

\* (cash_saving_interest + invest_per_week) * (1 + weekly_rate)
Compound(balance, deposit) ==
    (balance + deposit) + MulDiv(balance + deposit, WeeklyRatePPM, 1000000)

\* round(x, 2) of a cash amount
Round2(x) == RoundHalfEven(x, 1000) * 1000

\* round(sum(lot_sizes) / len(lot_sizes), 4) if lot_sizes else 0.0, in 1e-4 lots
AvgLot(ls) == IF ls = <<>> THEN 0 ELSE RoundHalfEven(SumSeq(ls) * 100, Len(ls))

\* the stop-loss without its break
StopExitContinue == "loop"

\* where the loop goes when the stop-loss fires: break
StopExit == "post"

\* the stop-loss without its flag
StopFlagUnset == FALSE

\* daily: stopped_early = True on the stop-loss
StopFlag == TRUE

\* weekly: cash_invest = 0 on the stop-loss
WipedOut(cash) == 0

Last(s) == s[Len(s)]

DailySnapshot(r, profit, ci, cs, csi, ls) ==
    [Date |-> r.Date, Week |-> r.Week, Close_Price |-> r.Close,
     Profit_TP |-> Round2(profit), Cash_Invest |-> Round2(ci),
     Cash_Saving |-> Round2(cs), Cash_Saving_Interest |-> Round2(csi),
     Average_Lot_Size |-> AvgLot(ls)]

WeeklySnapshot(r, profit, ci, cs, csi, ls) ==
    [Week |-> r.Week, Close_Price |-> r.Close, Profit_TP |-> Round2(profit),
     Cash_Invest |-> ci, Cash_Saving |-> cs, Cash_Saving_Interest |-> csi,
     Average_Lot_Size |-> AvgLot(ls)]

(***************************************************************************)
(* Initial state: the call's arguments, and the state set up before the    *)
(* loop (cash_invest = cash_saving = cash_saving_interest = initial_balance)*)
(***************************************************************************)
WinIdle ==
    /\ wdata = <<>> /\ wyears = 0 /\ wpc = "idle" /\ wi = 0
    /\ wcolumns = {} /\ wpass = 1 /\ first_drawdowns = <<>> /\ first_gains = <<>>
    /\ max_drawdowns = <<>> /\ max_gains = <<>>

WorstIdle ==
    /\ uraw = <<>> /\ udata = <<>> /\ upc = "off" /\ ui = 0
    /\ worst_losses = <<>> /\ uret = [returned |-> FALSE] /\ uraised = "none"

ThrIdle ==
    /\ dd_column = <<>> /\ std_multiplier = 0 /\ tpc = "off" /\ dd_thresh = NaN /\ std = NaN

NormIdle ==
    /\ worst_drawdown_dict = <<>> /\ df_final = <<>> /\ npc = "off" /\ ni = 0
    /\ standardized = <<>> /\ df_drawdown_avg = <<>> /\ nraised = "none"

PipeIdle ==
    /\ entry = "none" /\ symbol_list = <<>> /\ ppc = "off" /\ pk = 0
    /\ sim_calls = <<>> /\ final_summary = <<>> /\ praised = "none"

ExtIdle == WorstIdle /\ ThrIdle /\ NormIdle /\ PipeIdle

Init ==
    /\ variant \in {"daily", "weekly"}
    /\ arg \in Configs
    /\ pc = "loop"
    /\ cursor = None
    /\ nrows = 0
    /\ df_len = 0
    /\ row = [idx |-> 0, Date |-> None, Week |-> None, Close |-> NaN]
    /\ branch = "none"
    /\ cash_invest = arg.initial_balance
    /\ cash_saving = arg.initial_balance
    /\ cash_saving_interest = arg.initial_balance
    /\ trade_prices = <<>>
    /\ lot_sizes = <<>>
    /\ history = <<>>
    /\ current_week = None
    /\ stopped_early = FALSE
    /\ ret = [returned |-> FALSE]
    /\ raised = "none"
    /\ WinIdle
    /\ ExtIdle

NextDate(gap) == IF cursor = None THEN gap ELSE cursor + gap

(***************************************************************************)
(* analyzer.py: one row of the input that the date filter removes          *)
(***************************************************************************)
DailyFiltered ==
    /\ pc = "loop" /\ variant = "daily" /\ nrows < MaxRows
    /\ \E gap \in DateSteps :
         /\ ~InRange(NextDate(gap), arg)
         /\ cursor' = NextDate(gap)
    /\ nrows' = nrows + 1
    /\ UNCHANGED <<variant, arg, pc, row, branch, cash_invest, cash_saving,
                   cash_saving_interest, trade_prices, lot_sizes, history,
                   current_week, stopped_early, ret, raised, df_len, winVars, extVars>>

(***************************************************************************)
(* analyzer.py: one iteration of `for _, row in df.iterrows()`             *)
(***************************************************************************)
DailyStep ==
    /\ pc = "loop" /\ variant = "daily" /\ nrows < MaxRows
    /\ \E gap \in DateSteps, price \in Prices :
         LET date == NextDate(gap)
             week == Week(date)
             r == [idx |-> nrows + 1, Date |-> date, Week |-> week, Close |-> price]
             open == PeriodOpen(price, week, current_week)
             dep == IF open THEN arg.invest_per_week ELSE 0
             ci == cash_invest + dep
             cs == cash_saving + dep
             csi == IF open THEN Compound(cash_saving_interest, arg.invest_per_week)
                            ELSE cash_saving_interest
         IN  /\ InRange(date, arg)
             /\ cursor' = date
             /\ row' = r
             /\ current_week' = IF open THEN week ELSE current_week
             /\ cash_saving' = cs
             /\ cash_saving_interest' = csi
             /\ IF IsSkipped(price)
                THEN /\ branch' = "skip"
                     /\ cash_invest' = ci
                     /\ UNCHANGED <<trade_prices, lot_sizes, history, pc, stopped_early>>
                ELSE LET lot == LotSize(ci, price, arg)
                     IN  IF trade_prices = <<>>
                         THEN /\ branch' = "open"
                              /\ trade_prices' = <<price>>
                              /\ lot_sizes' = <<lot>>
                              /\ cash_invest' = ci
                              /\ history' = Append(history,
                                     DailySnapshot(r, 0, ci, cs, csi, <<lot>>))
                              /\ UNCHANGED <<pc, stopped_early>>
                         ELSE IF TargetReached(price, Last(trade_prices), arg.tp_percent)
                         THEN LET profit == ProfitTP(trade_prices, lot_sizes, arg)
                              IN  /\ branch' = "tp"
                                  /\ cash_invest' = ci + profit
                                  /\ trade_prices' = Closed(trade_prices)
                                  /\ lot_sizes' = Closed(lot_sizes)
                                  /\ history' = Append(history,
                                         DailySnapshot(r, profit, ci + profit, cs, csi,
                                                       Closed(lot_sizes)))
                                  /\ UNCHANGED <<pc, stopped_early>>
                         ELSE LET tps == Append(trade_prices, price)
                                  ls == Append(lot_sizes, lot)
                              IN  /\ trade_prices' = tps
                                  /\ lot_sizes' = ls
                                  /\ cash_invest' = ci
                                  /\ IF StopLoss(price, tps, ls, arg)
                                     THEN /\ branch' = "stop"
                                          /\ stopped_early' = StopFlag
                                          /\ pc' = StopExit
                                          /\ UNCHANGED history
                                     ELSE /\ branch' = "append"
                                          /\ history' = Append(history,
                                                 DailySnapshot(r, 0, ci, cs, csi, ls))
                                          /\ UNCHANGED <<pc, stopped_early>>
    /\ nrows' = nrows + 1
    /\ df_len' = df_len + 1
    /\ UNCHANGED <<variant, arg, ret, raised, winVars, extVars>>

(***************************************************************************)
(* The series is exhausted: the loop ends                                  *)
(***************************************************************************)
EndLoop ==
    /\ pc = "loop"
    /\ pc' = "post"
    /\ UNCHANGED <<variant, arg, cursor, nrows, row, branch, cash_invest, cash_saving,
                   cash_saving_interest, trade_prices, lot_sizes, history,
                   current_week, stopped_early, ret, raised, df_len, winVars, extVars>>

(***************************************************************************)
(* backtester.py: the rows of one calendar week, in date order; off is the *)
(* row's weekday.  groupby("Week").first() keeps, per week of the filtered *)
(* frame, the first non-null Close.                                        *)
(***************************************************************************)
WeekSteps == {7, 14}       \* gap in days between consecutive non-empty weeks

WeekGroups ==
    {<<[off |-> 0, Close |-> p]>> : p \in Prices}
    \cup {<<[off |-> 0, Close |-> p], [off |-> 3, Close |-> q]>> : p \in Prices, q \in Prices}

NextWeek(gap) == IF cursor = None THEN gap - 7 ELSE cursor + gap

\* df = df[df["Date"] >= start]; df = df[df["Date"] <= end]
FilterGroup(week, g, a) == SelectSeq(g, LAMBDA o : InRange(week + o.off, a))

RECURSIVE FirstNonNull(_)
FirstNonNull(g) ==
    IF g = <<>> THEN NaN
    ELSE IF Head(g).Close # NaN THEN Head(g).Close
    ELSE FirstNonNull(Tail(g))

\* a week with no row left by the filter, or whose first() Close is null
\* (weekly_df = weekly_df[weekly_df["Close"].notnull()]), is not iterated
WeeklyNoRow ==
    /\ pc = "loop" /\ variant = "weekly" /\ nrows < MaxRows
    /\ \E gap \in WeekSteps, g \in WeekGroups :
         LET kept == FilterGroup(NextWeek(gap), g, arg)
         IN  /\ FirstNonNull(kept) = NaN
             /\ cursor' = NextWeek(gap)
             /\ df_len' = df_len + Len(kept)
    /\ nrows' = nrows + 1
    /\ UNCHANGED <<variant, arg, pc, row, branch, cash_invest, cash_saving,
                   cash_saving_interest, trade_prices, lot_sizes, history,
                   current_week, stopped_early, ret, raised, winVars, extVars>>

(***************************************************************************)
(* backtester.py: one iteration of `for _, row in weekly_df.iterrows()`    *)
(***************************************************************************)
WeeklyStep ==
    /\ pc = "loop" /\ variant = "weekly" /\ nrows < MaxRows
    /\ \E gap \in WeekSteps, g \in WeekGroups :
         LET week == NextWeek(gap)
             kept == FilterGroup(week, g, arg)
             price == FirstNonNull(kept)
             r == [idx |-> nrows + 1, Date |-> None, Week |-> week, Close |-> price]
             dep == arg.invest_per_week
             cs == cash_saving + dep
             csi == Compound(cash_saving_interest, dep)
         IN  /\ price # NaN
             /\ cursor' = week
             /\ df_len' = df_len + Len(kept)
             /\ row' = r
             /\ IF IsSkipped(price)
                THEN /\ branch' = "skip"
                     /\ UNCHANGED <<cash_invest, cash_saving, cash_saving_interest,
                                    trade_prices, lot_sizes, history, pc>>
                ELSE LET lot == LotSize(cash_invest, price, arg)
                     IN  IF trade_prices = <<>>
                         THEN /\ branch' = "open"
                              /\ trade_prices' = <<price>>
                              /\ lot_sizes' = <<lot>>
                              /\ cash_invest' = cash_invest + dep
                              /\ cash_saving' = cs
                              /\ cash_saving_interest' = csi
                              /\ history' = Append(history,
                                     WeeklySnapshot(r, 0, cash_invest + dep, cs, csi, <<lot>>))
                              /\ UNCHANGED pc
                         ELSE IF TargetReachedWeekly(price, Last(trade_prices), arg.tp_percent)
                         THEN LET profit == ProfitTP(trade_prices, lot_sizes, arg)
                              IN  /\ branch' = "tp"
                                  /\ cash_invest' = cash_invest + (dep + profit)
                                  /\ trade_prices' = Closed(trade_prices)
                                  /\ lot_sizes' = Closed(lot_sizes)
                                  /\ cash_saving' = cs
                                  /\ cash_saving_interest' = csi
                                  /\ history' = Append(history,
                                         WeeklySnapshot(r, profit, cash_invest + (dep + profit),
                                                        cs, csi, Closed(lot_sizes)))
                                  /\ UNCHANGED pc
                         ELSE LET tps == Append(trade_prices, price)
                                  ls == Append(lot_sizes, lot)
                              IN  /\ trade_prices' = tps
                                  /\ lot_sizes' = ls
                                  /\ IF StopLoss(price, tps, ls, arg)
                                     THEN /\ branch' = "stop"
                                          /\ cash_invest' = WipedOut(cash_invest + dep)
                                          /\ pc' = StopExit
                                          /\ UNCHANGED <<cash_saving, cash_saving_interest,
                                                         history>>
                                     ELSE /\ branch' = "append"
                                          /\ cash_invest' = cash_invest + dep
                                          /\ cash_saving' = cs
                                          /\ cash_saving_interest' = csi
                                          /\ history' = Append(history,
                                                 WeeklySnapshot(r, 0, cash_invest + dep,
                                                                cs, csi, ls))
                                          /\ UNCHANGED pc
    /\ nrows' = nrows + 1
    /\ UNCHANGED <<variant, arg, current_week, stopped_early, ret, raised, winVars, extVars>>

(***************************************************************************)
(* Annualized return.  The power ((final / total) ** (1 / years) - 1) * 100 *)
(* is kept symbolic: kind "pow" with its operands; kind "zero" is the       *)
(* literal 0.0 of the early returns.                                        *)
(***************************************************************************)
ArZero == [kind |-> "zero", final |-> 0, total |-> 0, days |-> 0, per_year |-> 0]

\* duration_years < 0 in place of duration_years <= 0
DurationNegative(days) == days < 0

\* if duration_years <= 0: return 0.0
DurationNonPositive(days) == days <= 0

\* round(((final_value / total_contribution) ** (1 / duration_years) - 1) * 100, 2);
\* 1 / duration_years raises ZeroDivisionError for a zero duration; final_value is
\* a numpy scalar, so a zero total_contribution gives nan (0 / 0) or inf (x / 0),
\* which the power, the subtraction and round() hand on
AnnualizedReturn(final, total, days, per_year) ==
    [kind |-> IF days = 0 THEN "ZeroDivisionError"
              ELSE IF total = 0 THEN (IF final = 0 THEN "nan" ELSE "inf")
              ELSE "pow",
     final |-> final, total |-> total, days |-> days, per_year |-> per_year]

Columns(hist) == IF hist = <<>> THEN {} ELSE DOMAIN hist[1]

Weeks(hist) == {hist[i].Week : i \in DOMAIN hist}

\* analyzer.py calc_ar: duration from "Date", 365 days a year, one deposit per
\* distinct "Week" of the trajectory
calc_ar(hist, value_col, a) ==
    IF hist = <<>> \/ value_col \notin Columns(hist) THEN ArZero
    ELSE LET days == Last(hist).Date - hist[1].Date
         IN  IF DurationNonPositive(days) THEN ArZero
             ELSE AnnualizedReturn(Last(hist)[value_col],
                      a.initial_balance + a.invest_per_week * Cardinality(Weeks(hist)),
                      days, 36500)

\* backtester.py calculate_adjusted_return: duration from "Week", 365.25 days a
\* year, one deposit per row of the trajectory
calculate_adjusted_return(hist, value_col, a) ==
    IF hist = <<>> \/ value_col \notin Columns(hist) THEN ArZero
    ELSE LET days == Last(hist).Week - hist[1].Week
         IN  IF DurationNonPositive(days) THEN ArZero
             ELSE AnnualizedReturn(Last(hist)[value_col],
                      a.initial_balance + a.invest_per_week * Len(hist),
                      days, 36525)

ArColumns == {"AR_Invest", "AR_Saving", "AR_Saving_Interest"}

(***************************************************************************)
(* analyzer.py lines 93-114: result_df, the three returns, the return      *)
(***************************************************************************)
DailyReturn ==
    /\ pc = "post" /\ variant = "daily"
    /\ LET ar_invest == calc_ar(history, "Cash_Invest", arg)
           ar_saving == calc_ar(history, "Cash_Saving", arg)
           ar_saving_interest == calc_ar(history, "Cash_Saving_Interest", arg)
       IN  IF "ZeroDivisionError" \in {ar_invest.kind, ar_saving.kind, ar_saving_interest.kind}
           THEN /\ raised' = "ZeroDivisionError"
                /\ pc' = "done"
                /\ UNCHANGED ret
           ELSE /\ ret' = [returned |-> TRUE, result_df |-> history,
                           columns |-> Columns(history) \cup ArColumns,
                           ar_invest |-> ar_invest, ar_saving |-> ar_saving,
                           ar_saving_interest |-> ar_saving_interest,
                           stopped_early |-> stopped_early]
                /\ pc' = "caller"
                /\ UNCHANGED raised
    /\ UNCHANGED <<variant, arg, cursor, nrows, row, branch, cash_invest, cash_saving,
                   cash_saving_interest, trade_prices, lot_sizes, history,
                   current_week, stopped_early, df_len, winVars, extVars>>

(***************************************************************************)
(* analyzer.py run_analysis line 213:                                      *)
(* df_backtest[["Date", "AR_Invest", "AR_Saving", "AR_Saving_Interest"]]   *)
(* raises KeyError when a selected column is missing                       *)
(***************************************************************************)
RunAnalysisMerge ==
    /\ pc = "caller" /\ variant = "daily"
    /\ raised' = IF ({"Date"} \cup ArColumns) \subseteq ret.columns THEN "none" ELSE "KeyError"
    /\ pc' = "done"
    /\ UNCHANGED <<variant, arg, cursor, nrows, row, branch, cash_invest, cash_saving,
                   cash_saving_interest, trade_prices, lot_sizes, history,
                   current_week, stopped_early, ret, df_len, winVars, extVars>>

(***************************************************************************)
(* backtester.py lines 69-97: portfolio_df, the three returns, the plot    *)
(* (df["Symbol"].iloc[0] raises IndexError on an empty frame that has the  *)
(* column; portfolio_df['Week'] raises KeyError on a frame without rows),  *)
(* the return                                                              *)
(***************************************************************************)
WeeklyReturn ==
    /\ pc = "post" /\ variant = "weekly"
    /\ \E has_symbol \in BOOLEAN :
         LET ar_invest == calculate_adjusted_return(history, "Cash_Invest", arg)
             ar_saving == calculate_adjusted_return(history, "Cash_Saving", arg)
             ar_saving_interest ==
                 calculate_adjusted_return(history, "Cash_Saving_Interest", arg)
         IN  IF "ZeroDivisionError" \in {ar_invest.kind, ar_saving.kind, ar_saving_interest.kind}
             THEN raised' = "ZeroDivisionError" /\ UNCHANGED ret
             ELSE IF has_symbol /\ df_len = 0
             THEN raised' = "IndexError" /\ UNCHANGED ret
             ELSE IF "Week" \notin Columns(history)
             THEN raised' = "KeyError" /\ UNCHANGED ret
             ELSE /\ ret' = [returned |-> TRUE, result_df |-> history,
                             columns |-> Columns(history),
                             ar_invest |-> ar_invest, ar_saving |-> ar_saving,
                             ar_saving_interest |-> ar_saving_interest]
                  /\ UNCHANGED raised
    /\ pc' = "done"
    /\ UNCHANGED <<variant, arg, cursor, nrows, row, branch, cash_invest, cash_saving,
                   cash_saving_interest, trade_prices, lot_sizes, history,
                   current_week, stopped_early, df_len, winVars, extVars>>

Next ==
    \/ DailyFiltered \/ DailyStep \/ WeeklyNoRow \/ WeeklyStep \/ EndLoop
    \/ DailyReturn \/ RunAnalysisMerge \/ WeeklyReturn

Spec == Init /\ [][Next]_vars

(***************************************************************************)
(* analyzer.py analyze_drawdown_and_gain: the bounded-horizon window       *)
(* analysis.  The frame is the date-sorted, 0..n-1 indexed frame that      *)
(* run_analysis builds (it carries "Datetime" and "Date").  Returns are in *)
(* hundredths of a percent; NaN is the None of an output column.           *)
(***************************************************************************)
MaxWinRows == 3            \* rows of the analysed series

DaysPerYear == 365
WinDates == {0, 100, 365, 500, 730}
WinPrices == {NaN, 0, 90, 100, 110}
WinYears == {1, 2}

SortedByDate(d) == \A i \in DOMAIN d : \A j \in DOMAIN d : i < j => d[i].Date <= d[j].Date

WinSeries ==
    {d \in UNION {[1..n -> [Date : WinDates, Price : WinPrices]] : n \in 0..MaxWinRows} :
        SortedByDate(d)}

SimIdle ==
    /\ variant = "daily"
    /\ arg = CHOOSE c \in Configs : c.initial_balance = 0 /\ c.invest_per_week = 0
    /\ pc = "off"
    /\ cursor = None /\ nrows = 0 /\ df_len = 0
    /\ row = [idx |-> 0, Date |-> None, Week |-> None, Close |-> NaN]
    /\ branch = "none"
    /\ cash_invest = 0 /\ cash_saving = 0 /\ cash_saving_interest = 0
    /\ trade_prices = <<>> /\ lot_sizes = <<>> /\ history = <<>>
    /\ current_week = None /\ stopped_early = FALSE
    /\ ret = [returned |-> FALSE] /\ raised = "none"

\* the price column the frame comes with: "Close" as run_analysis builds it,
\* or "Price" alone; a column the frame lacks reads as NaN
WinColumns == {{"Close"}, {"Price"}}

Frame(series, columns) ==
    [i \in DOMAIN series |->
        [Date |-> series[i].Date,
         Close |-> IF "Close" \in columns THEN series[i].Price ELSE NaN,
         Price |-> IF "Price" \in columns THEN series[i].Price ELSE NaN]]

InitWindow ==
    /\ SimIdle
    /\ ExtIdle
    /\ wcolumns \in WinColumns
    /\ \E series \in WinSeries : wdata = Frame(series, wcolumns)
    /\ wpass = 1
    /\ first_drawdowns = <<>>
    /\ first_gains = <<>>
    /\ wyears \in WinYears
    /\ wpc = "idle"
    /\ wi = 0
    /\ max_drawdowns = <<>>
    /\ max_gains = <<>>

MaxOf(S) == CHOOSE x \in S : \A y \in S : y <= x
MinOf(S) == CHOOSE x \in S : \A y \in S : x <= y

\* round(x, 2) of a signed fraction n/d (d > 0), in hundredths
RoundSigned(n, d) == IF n >= 0 THEN RoundHalfEven(n, d) ELSE -RoundHalfEven(-n, d)

\* data.get("Close", data.get("Price"))
PriceSource(data, columns) ==
    [i \in DOMAIN data |-> IF "Close" \in columns THEN data[i].Close ELSE data[i].Price]

\* data["Price"] = data.get("Close", data.get("Price"))
AssignPrice(data, columns) ==
    [i \in DOMAIN data |-> [data[i] EXCEPT !.Price = PriceSource(data, columns)[i]]]

\* the Price assignment placed after the loop
AssignAfterLoop == FALSE

\* line 127 precedes the loop of line 134
AssignBeforeLoop == TRUE

\* data.empty or ... .isnull().all()
WinInvalid(data, columns) ==
    data = <<>> \/ \A i \in DOMAIN data : PriceSource(data, columns)[i] = NaN

\* cutoff_date = data["Date"].max() - timedelta(days=365 * min_years_required)
CutoffDate(data, years) == MaxOf({data[i].Date : i \in DOMAIN data}) - DaysPerYear * years

\* the cutoff test left out
NoCutoff(entry_date, cutoff_date) == FALSE

\* entry_date > cutoff_date
BeyondCutoff(entry_date, cutoff_date) == entry_date > cutoff_date

\* data.loc[(Date > entry_date) & (Date <= end_date), "Price"], then [future_prices > 0]
FuturePrices(data, entry_date, years) ==
    LET end_date == entry_date + DaysPerYear * years
    IN  {data[j].Price : j \in {k \in DOMAIN data :
             /\ data[k].Date > entry_date
             /\ data[k].Date <= end_date
             /\ data[k].Price # NaN /\ data[k].Price > 0}}

\* ((future_prices - entry_price) / entry_price) * 100, as numerators over entry_price
\* scaled to hundredths of a percent
Returns(future, entry_price) == {(p - entry_price) * 10000 : p \in future}

\* a drawdown that is never let above 0
MaxDrawdownClamped(future, entry_price) ==
    LET m == RoundSigned(MinOf(Returns(future, entry_price)), entry_price)
    IN  IF m > 0 THEN 0 ELSE m

\* round(returns.min(), 2)
MaxDrawdownOf(future, entry_price) ==
    RoundSigned(MinOf(Returns(future, entry_price)), entry_price)

\* round(returns.max(), 2)
MaxGainOf(future, entry_price) ==
    RoundSigned(MaxOf(Returns(future, entry_price)), entry_price)

WinStart ==
    /\ wpc = "idle"
    /\ IF WinInvalid(wdata, wcolumns)
       THEN /\ wpc' = "skipped"
            /\ UNCHANGED <<wdata, wcolumns, max_drawdowns, max_gains>>
       ELSE /\ wpc' = "rows"
            /\ IF AssignBeforeLoop
               THEN /\ wdata' = AssignPrice(wdata, wcolumns)
                    /\ wcolumns' = wcolumns \cup {"Price"}
               ELSE UNCHANGED <<wdata, wcolumns>>
            /\ max_drawdowns' = [i \in DOMAIN wdata |-> NaN]
            /\ max_gains' = [i \in DOMAIN wdata |-> NaN]
    /\ wi' = 1
    /\ UNCHANGED <<wpass, first_drawdowns, first_gains, wyears, simVars, extVars>>

\* one iteration of `for i, row in data.iterrows()`
WinRow ==
    /\ wpc = "rows" /\ wi <= Len(wdata)
    /\ LET entry_date == wdata[wi].Date
           entry_price == wdata[wi].Price
           future == FuturePrices(wdata, entry_date, wyears)
       IN  IF \/ BeyondCutoff(entry_date, CutoffDate(wdata, wyears))
              \/ entry_price = NaN \/ entry_price <= 0
              \/ future = {}
           THEN UNCHANGED <<max_drawdowns, max_gains>>
           ELSE /\ max_drawdowns' = [max_drawdowns EXCEPT
                       ![wi] = MaxDrawdownOf(future, entry_price)]
                /\ max_gains' = [max_gains EXCEPT
                       ![wi] = MaxGainOf(future, entry_price)]
    /\ wi' = wi + 1
    /\ UNCHANGED <<wdata, wcolumns, wpass, first_drawdowns, first_gains, wyears, wpc,
                   simVars, extVars>>

\* data["Max_Drawdown"] = max_drawdowns; data["Max_Gain"] = max_gains; return data
WinFinish ==
    /\ wpc = "rows" /\ wi > Len(wdata)
    /\ wpc' = "done"
    /\ IF AssignBeforeLoop
       THEN UNCHANGED <<wdata, wcolumns>>
       ELSE /\ wdata' = AssignPrice(wdata, wcolumns)
            /\ wcolumns' = wcolumns \cup {"Price"}
    /\ UNCHANGED <<wpass, first_drawdowns, first_gains, wyears, wi, max_drawdowns,
                   max_gains, simVars, extVars>>

\* the caller keeps the returned frame and passes it to the analysis again
WinRerun ==
    /\ wpc \in {"done", "skipped"} /\ wpass = 1
    /\ wpass' = 2
    /\ first_drawdowns' = max_drawdowns
    /\ first_gains' = max_gains
    /\ wpc' = "idle"
    /\ wi' = 0
    /\ UNCHANGED <<wdata, wcolumns, wyears, max_drawdowns, max_gains, simVars, extVars>>

NextWindow == WinStart \/ WinRow \/ WinFinish \/ WinRerun

SpecWindow == InitWindow /\ [][NextWindow]_vars

(***************************************************************************)
(* data_fetcher.py clean_data and analyzer_max_drawdown.py                 *)
(* analyze_max_negative_gain: the unbounded-horizon analysis, as main.py   *)
(* chains them.  The series is the frame in the Date order that line 7     *)
(* leaves; prices are plain numbers, returns are in hundredths of a        *)
(* percent.  numpy arithmetic is kept: x/0 is inf (0/0 is nan), nan        *)
(* propagates through the arithmetic and through ndarray.min().            *)
(***************************************************************************)
MaxWorstRows == 4          \* rows of the series

Inf == 2000000             \* numpy inf (-Inf is its negative)
Null == -3000000           \* the None of worst_losses and of the returned tuple

RawPrices == {NaN, -50, 0, 90, 95, 100, 110}

\* lambda x: 0 if pd.notnull(x) and x < 0 else x
CleanPrice(x) == IF x # NaN /\ x < 0 THEN 0 ELSE x

InitWorst ==
    /\ SimIdle
    /\ WinIdle
    /\ PipeIdle
    /\ ThrIdle
    /\ NormIdle
    /\ uraw \in UNION {[1..n -> RawPrices] : n \in 0..MaxWorstRows}
    /\ udata = <<>>
    /\ upc = "raw"
    /\ ui = 0
    /\ worst_losses = <<>>
    /\ uret = [returned |-> FALSE]
    /\ uraised = "none"

\* the later indices self included
FutureIndicesFrom(i, n) == i..n

\* prices[i+1:]
FutureIndices(i, n) == (i + 1)..n

\* round(future_returns.min(), 2) of ((future_prices - entry_price) / entry_price) * 100;
\* clean_data leaves no negative price
WorstLoss(prices, i) ==
    LET entry_price == prices[i]
        future_prices == {prices[j] : j \in FutureIndices(i, Len(prices))}
    IN  IF future_prices = {} THEN Null
        ELSE IF entry_price = NaN \/ NaN \in future_prices THEN NaN
        ELSE IF entry_price = 0 THEN (IF 0 \in future_prices THEN NaN ELSE Inf)
        ELSE RoundSigned(MinOf(Returns(future_prices, entry_price)), entry_price)

\* data.dropna(subset=["Price"]).iloc[-1]["Price"]
LatestPrice(prices) ==
    prices[MaxOf({i \in DOMAIN prices : prices[i] # NaN})]

\* Python's min(list): a later element replaces the running minimum only
\* when it compares less, which nan never does
RECURSIVE PyMinFrom(_, _, _)
PyMinFrom(s, k, m) ==
    IF k > Len(s) THEN m
    ELSE PyMinFrom(s, k + 1,
             IF s[k] # NaN /\ m # NaN /\ s[k] < m THEN s[k] ELSE m)

PyMin(s) == PyMinFrom(s, 2, s[1])

\* the list stored as a frame column: None becomes a null
AsColumn(s) == [i \in DOMAIN s |-> IF s[i] = Null THEN NaN ELSE s[i]]

\* YahooFinanceDataFetcher.clean_data on the price column
FetcherClean ==
    /\ upc = "raw"
    /\ udata' = [i \in DOMAIN uraw |-> CleanPrice(uraw[i])]
    /\ upc' = "clean"
    /\ UNCHANGED <<uraw, ui, worst_losses, uret, uraised, simVars, winVars, thrVars, normVars, pipeVars>>

\* analyze_max_negative_gain up to the loop
WorstStart ==
    /\ upc = "clean"
    /\ IF \A i \in DOMAIN udata : udata[i] = NaN
       THEN /\ upc' = "done"
            /\ uret' = [returned |-> TRUE, has_column |-> FALSE, column |-> <<>>,
                        latest_price |-> Null, max_drawdown |-> Null]
       ELSE /\ upc' = "rows"
            /\ UNCHANGED uret
    /\ ui' = 1
    /\ UNCHANGED <<uraw, udata, worst_losses, uraised, simVars, winVars, thrVars, normVars, pipeVars>>

\* one iteration of `for i in range(len(prices))`
WorstRow ==
    /\ upc = "rows" /\ ui <= Len(udata)
    /\ worst_losses' = Append(worst_losses, WorstLoss(udata, ui))
    /\ ui' = ui + 1
    /\ UNCHANGED <<uraw, udata, upc, uret, uraised, simVars, winVars, thrVars, normVars, pipeVars>>

\* the statistics after the loop and the return; the 0.33 quantile is not
\* part of the model
WorstFinish ==
    /\ upc = "rows" /\ ui > Len(udata)
    /\ LET worst_losses_clean == SelectSeq(worst_losses, LAMBDA x : x # Null)
       IN  IF worst_losses_clean = <<>>
           THEN /\ uraised' = "ValueError"       \* min() of an empty list
                /\ UNCHANGED uret
           ELSE /\ uret' = [returned |-> TRUE, has_column |-> TRUE,
                            column |-> AsColumn(worst_losses),
                            latest_price |-> LatestPrice(udata),
                            max_drawdown |-> PyMin(worst_losses_clean)]
                /\ UNCHANGED uraised
    /\ upc' = "done"
    /\ UNCHANGED <<uraw, udata, ui, worst_losses, simVars, winVars, thrVars, normVars, pipeVars>>

NextWorst == FetcherClean \/ WorstStart \/ WorstRow \/ WorstFinish

SpecWorst == InitWorst /\ [][NextWorst]_vars

(***************************************************************************)
(* analyzer.py run_analysis, lines 194-207: the drawdown threshold and the *)
(* std argument of the backtest call.  The Max_Drawdown column holds whole *)
(* percents here; mean, standard deviation and threshold are in tenths of  *)
(* a percent (the square root is taken to a tenth), std_multiplier in      *)
(* hundredths.  NaN is the nan of pandas and numpy.                        *)
(***************************************************************************)
MaxColumn == 3             \* rows of the Max_Drawdown column

ThresholdFloor == -1000    \* the -100 of line 196
DrawdownPcts == {NaN, -95, -60, -20, 10}
Multipliers == {100, 197, 300}

InitThresholds ==
    /\ SimIdle
    /\ WinIdle
    /\ PipeIdle
    /\ WorstIdle
    /\ NormIdle
    /\ dd_column \in UNION {[1..n -> DrawdownPcts] : n \in 0..MaxColumn}
    /\ std_multiplier \in Multipliers
    /\ tpc = "column"
    /\ dd_thresh = NaN
    /\ std = NaN

\* the values a pandas reduction keeps (skipna)
NonNull(column) == SelectSeq(column, LAMBDA x : x # NaN)

SumSquares(s) == DotSeq(s, s)

RECURSIVE SqrtIn(_, _, _)
SqrtIn(n, lo, hi) ==
    IF lo = hi THEN lo
    ELSE LET mid == (lo + hi + 1) \div 2
         IN  IF mid * mid <= n THEN SqrtIn(n, mid, hi) ELSE SqrtIn(n, lo, mid - 1)

\* the integer part of the square root
ISqrt(n) == SqrtIn(n, 0, 46340)

\* Series.mean(): nan when no value is left
Mean(column) ==
    LET s == NonNull(column)
    IN  IF s = <<>> THEN NaN ELSE RoundSigned(10 * SumSeq(s), Len(s))

\* Series.std() (ddof = 1): nan when fewer than two values are left
StdDev(column) ==
    LET s == NonNull(column)
        n == Len(s)
    IN  IF n < 2 THEN NaN
        ELSE ISqrt((100 * (n * SumSquares(s) - SumSeq(s) * SumSeq(s))) \div (n * (n - 1)))

\* dd_mean - std_multiplier * dd_std in float arithmetic: nan propagates
LowerBand(mean, k, dev) ==
    IF mean = NaN \/ dev = NaN THEN NaN ELSE mean - RoundSigned(k * dev, 100)

\* Python's max(a, b): b only when b > a, which is false when a is nan
PyMax(a, b) == IF a # NaN /\ b # NaN /\ b > a THEN b ELSE a

\* -x in float arithmetic
Negate(x) == IF x = NaN THEN NaN ELSE -x

\* lines 194-196
RunThresholds ==
    /\ tpc = "column"
    /\ dd_thresh' = PyMax(LowerBand(Mean(dd_column), std_multiplier, StdDev(dd_column)),
                          ThresholdFloor)
    /\ tpc' = "thresholds"
    /\ UNCHANGED <<dd_column, std_multiplier, std, simVars, winVars, worstVars, normVars, pipeVars>>

\* line 207: std=-dd_thresh
CallBacktest ==
    /\ tpc = "thresholds"
    /\ std' = Negate(dd_thresh)
    /\ tpc' = "called"
    /\ UNCHANGED <<dd_column, std_multiplier, dd_thresh, simVars, winVars, worstVars, normVars, pipeVars>>

NextThresholds == RunThresholds \/ CallBacktest

SpecThresholds == InitThresholds /\ [][NextThresholds]_vars

(***************************************************************************)
(* analyzer.py standardize_max_drawdown: the cross-instrument              *)
(* normalization.  Max_Drawdown, the thresholds and Standardized_Drawdown  *)
(* are in hundredths of a percent (the quotient is kept to 2 decimals).    *)
(***************************************************************************)
MaxFinalRows == 2          \* rows of df_final

Hundred == 10000           \* the 100 of line 306
NormSymbols == {"A", "B"}
NormDates == {0, 1}
NormDrawdowns == {NaN, -5000, 1000}
NormThresholds == {NaN, 0, -10000, -2500}

InitNormalize ==
    /\ SimIdle
    /\ WinIdle
    /\ PipeIdle
    /\ WorstIdle
    /\ ThrIdle
    /\ worst_drawdown_dict \in UNION {[S -> NormThresholds] : S \in SUBSET NormSymbols}
    /\ df_final \in UNION {[1..n -> [Symbol : NormSymbols, Date : NormDates,
                                     Max_Drawdown : NormDrawdowns]] : n \in 1..MaxFinalRows}
    /\ npc = "rows"
    /\ ni = 1
    /\ standardized = <<>>
    /\ df_drawdown_avg = <<>>
    /\ nraised = "none"

Abs(x) == IF x < 0 THEN -x ELSE x

\* the test without the membership part
IsStandardizedNoLookup(r, dict) == r.Max_Drawdown # NaN /\ r.Max_Drawdown < 0

\* row['Max_Drawdown'] < 0 and row['Symbol'] in worst_drawdown_dict
IsStandardized(r, dict) ==
    r.Max_Drawdown # NaN /\ r.Max_Drawdown < 0 /\ r.Symbol \in DOMAIN dict

\* worst_drawdown_dict.get(row['Symbol'], np.nan)
Lookup(dict, symbol) == IF symbol \in DOMAIN dict THEN dict[symbol] ELSE NaN

\* min(abs(max_drawdown) / abs(threshold) * 100, 100) for a threshold other than 0
Standardize(max_drawdown, threshold) ==
    IF threshold = NaN THEN NaN
    ELSE PyMin(<<RoundHalfEven(Abs(max_drawdown) * 10000, Abs(threshold)), Hundred>>)

\* the lambda of line 306 on row ni; a threshold of 0 divides by zero, which
\* raises for Python floats and gives inf (then 100) for numpy floats
NormRow ==
    /\ npc = "rows" /\ ni <= Len(df_final)
    /\ LET r == df_final[ni]
           threshold == Lookup(worst_drawdown_dict, r.Symbol)
       IN  IF ~IsStandardized(r, worst_drawdown_dict)
           THEN /\ standardized' = Append(standardized, 0)
                /\ ni' = ni + 1
                /\ UNCHANGED <<npc, nraised>>
           ELSE IF threshold = 0
           THEN \/ /\ standardized' = Append(standardized, Hundred)
                   /\ ni' = ni + 1
                   /\ UNCHANGED <<npc, nraised>>
                \/ /\ nraised' = "ZeroDivisionError"
                   /\ npc' = "done"
                   /\ UNCHANGED <<standardized, ni>>
           ELSE /\ standardized' = Append(standardized, Standardize(r.Max_Drawdown, threshold))
                /\ ni' = ni + 1
                /\ UNCHANGED <<npc, nraised>>
    /\ UNCHANGED <<worst_drawdown_dict, df_final, df_drawdown_avg, simVars, winVars,
                   worstVars, thrVars, pipeVars>>

\* df_final['Standardized_Drawdown'] = ...
NormAssign ==
    /\ npc = "rows" /\ ni > Len(df_final)
    /\ npc' = "mean"
    /\ UNCHANGED <<worst_drawdown_dict, df_final, ni, standardized, df_drawdown_avg, nraised,
                   simVars, winVars, worstVars, thrVars, pipeVars>>

\* df_final.groupby('Date')['Standardized_Drawdown'].mean(): nulls are left out
GroupMean(rows, column) ==
    [date \in {rows[i].Date : i \in DOMAIN rows} |->
        LET members == {i \in DOMAIN rows : rows[i].Date = date /\ column[i] # NaN}
            values == [i \in DOMAIN rows |-> IF i \in members THEN column[i] ELSE 0]
        IN  [sum |-> SumSeq(values), count |-> Cardinality(members)]]

NormMean ==
    /\ npc = "mean"
    /\ df_drawdown_avg' = GroupMean(df_final, standardized)
    /\ npc' = "done"
    /\ UNCHANGED <<worst_drawdown_dict, df_final, ni, standardized, nraised,
                   simVars, winVars, worstVars, thrVars, pipeVars>>

NextNormalize == NormRow \/ NormAssign \/ NormMean

SpecNormalize == InitNormalize /\ [][NextNormalize]_vars

(***************************************************************************)
(* analyzer.py run_all_analyses and main.py main: the loop over the        *)
(* instruments, at the level of one instrument per step.  An instrument's  *)
(* data is "norows" (no row of that symbol), "allnull" (rows, but no Close *)
(* that is present and > 0) or "valid" (a positive Close inside the        *)
(* backtest range, so that the analysis of the other specifications runs   *)
(* through).  main is modelled from its simulator call on, for instruments *)
(* that reach it.  Coefficients are in hundredths; None is a missing       *)
(* coeff_map entry.                                                        *)
(***************************************************************************)
MaxSymbols == 3            \* instruments of a run

DefaultCoeff == 1          \* the 0.01 of coeff_map.get(symbol, 0.01)
DataKinds == {"norows", "allnull", "valid"}
CoeffEntries == {None, 1, 5}

InitPipeline ==
    /\ SimIdle
    /\ WinIdle
    /\ WorstIdle
    /\ ThrIdle
    /\ NormIdle
    /\ entry \in {"run_all_analyses", "main"}
    /\ symbol_list \in UNION {[1..n -> [data : DataKinds, coeff : CoeffEntries]] :
                                  n \in 0..MaxSymbols}
    /\ entry = "main" => \A k \in DOMAIN symbol_list : symbol_list[k].data = "valid"
    /\ ppc = "loop"
    /\ pk = 1
    /\ sim_calls = <<>>
    /\ final_summary = <<>>
    /\ praised = "none"

\* coeff_map.get(symbol)
Get(e) == e.coeff

\* coeff_map.get(symbol, 0.01)
GetOrDefault(e) == IF e.coeff = None THEN DefaultCoeff ELSE e.coeff

\* "Coefficient": coeff_map.get(symbol) of the summary row
ReportedCoeff(e) == Get(e)

\* run_all_analyses lines 241-247: df.empty, continue
RunAllSkip ==
    /\ entry = "run_all_analyses" /\ ppc = "loop" /\ pk <= Len(symbol_list)
    /\ symbol_list[pk].data = "norows"
    /\ pk' = pk + 1
    /\ UNCHANGED <<entry, symbol_list, ppc, sim_calls, final_summary, praised,
                   simVars, winVars, worstVars, thrVars, normVars>>

\* run_analysis on rows whose Close is all null: analyze_drawdown_and_gain
\* returns the frame at line 124 without the output columns, the frame is not
\* empty (line 189), and line 194 reads df["Max_Drawdown"]
RunAllNullClose ==
    /\ entry = "run_all_analyses" /\ ppc = "loop" /\ pk <= Len(symbol_list)
    /\ symbol_list[pk].data = "allnull"
    /\ praised' = "KeyError"
    /\ ppc' = "done"
    /\ UNCHANGED <<entry, symbol_list, pk, sim_calls, final_summary,
                   simVars, winVars, worstVars, thrVars, normVars>>

\* lines 249-290 for an instrument whose analysis runs through
RunAllAnalyse ==
    /\ entry = "run_all_analyses" /\ ppc = "loop" /\ pk <= Len(symbol_list)
    /\ symbol_list[pk].data = "valid"
    /\ sim_calls' = Append(sim_calls, [Symbol |-> pk, coeff |-> GetOrDefault(symbol_list[pk])])
    /\ final_summary' = Append(final_summary,
            [Symbol |-> pk, Coefficient |-> ReportedCoeff(symbol_list[pk])])
    /\ pk' = pk + 1
    /\ UNCHANGED <<entry, symbol_list, ppc, praised,
                   simVars, winVars, worstVars, thrVars, normVars>>

\* lines 293-300: an empty summary frame has no 'Symbol' column for the
\* set_index of standardize_max_drawdown
RunAllFinish ==
    /\ entry = "run_all_analyses" /\ ppc = "loop" /\ pk > Len(symbol_list)
    /\ praised' = IF final_summary = <<>> THEN "KeyError" ELSE "none"
    /\ ppc' = "done"
    /\ UNCHANGED <<entry, symbol_list, pk, sim_calls, final_summary,
                   simVars, winVars, worstVars, thrVars, normVars>>

\* main.py lines 62-82: the simulator is called with coeff_map.get(symbol);
\* with None, std * price * coeff (backtester.py line 29) raises TypeError
MainAnalyse ==
    /\ entry = "main" /\ ppc = "loop" /\ pk <= Len(symbol_list)
    /\ sim_calls' = Append(sim_calls, [Symbol |-> pk, coeff |-> Get(symbol_list[pk])])
    /\ IF Get(symbol_list[pk]) = None
       THEN /\ praised' = "TypeError"
            /\ ppc' = "done"
            /\ UNCHANGED <<pk, final_summary>>
       ELSE /\ final_summary' = Append(final_summary,
                    [Symbol |-> pk, Coefficient |-> ReportedCoeff(symbol_list[pk])])
            /\ pk' = pk + 1
            /\ UNCHANGED <<ppc, praised>>
    /\ UNCHANGED <<entry, symbol_list, simVars, winVars, worstVars, thrVars, normVars>>

\* main.py lines 85-87
MainFinish ==
    /\ entry = "main" /\ ppc = "loop" /\ pk > Len(symbol_list)
    /\ ppc' = "done"
    /\ UNCHANGED <<entry, symbol_list, pk, sim_calls, final_summary, praised,
                   simVars, winVars, worstVars, thrVars, normVars>>

NextPipeline ==
    \/ RunAllSkip \/ RunAllNullClose \/ RunAllAnalyse \/ RunAllFinish
    \/ MainAnalyse \/ MainFinish

SpecPipeline == InitPipeline /\ [][NextPipeline]_vars

(***************************************************************************)
(* Properties of the simulators (checked under Spec)                       *)
(***************************************************************************)
\* a loop iteration ran in this step: the loop variable was rebound
Iterated == row'.idx # row.idx

\* this step is the one on which the stop-loss fires
StopFires == Iterated /\ branch' = "stop"

\* this step closes the position
Closes == trade_prices # <<>> /\ trade_prices' = <<>>

\* the periodic deposit the iteration makes before / besides trading
StepDeposit ==
    IF variant = "weekly" THEN arg.invest_per_week
    ELSE IF row'.Week # current_week THEN arg.invest_per_week ELSE 0

Finished == pc \in {"post", "caller", "done"}

C2_NothingAfterStop ==
    [][ branch = "stop" =>
          UNCHANGED <<row, nrows, cursor, trade_prices, lot_sizes, cash_invest,
                      cash_saving, cash_saving_interest, current_week, history>> ]_vars

\* the run was stopped with input rows still to come, and has returned
C2_Witness == branch = "stop" /\ pc = "done" /\ nrows < MaxRows /\ ret.returned

\* C3 (as stated): after a stop the last snapshot of the trajectory is the stop
\* step's: its price, its period and the cash_invest in force when the stop fired.
C3_StopSnapshotIsLast ==
    (branch = "stop" /\ Finished) =>
        /\ history # <<>>
        /\ Last(history).Close_Price = row.Close
        /\ Last(history).Week = row.Week
        /\ (variant = "daily" =>
              /\ Last(history).Date = row.Date
              /\ Last(history).Cash_Invest = Round2(cash_invest))
        /\ (variant = "weekly" => Last(history).Cash_Invest = cash_invest)

\* C4 (as stated): every variant returns a stopped_early indicator, true exactly
\* when the stop fired, and the stop raises nothing.
C4_StoppedEarlyReturned ==
    /\ (ret.returned =>
          /\ "stopped_early" \in DOMAIN ret
          /\ (ret.stopped_early <=> branch = "stop"))
    /\ (branch = "stop" /\ pc = "done" => raised = "none" /\ ret.returned)

\* C4 (amended): the stop raises nothing in either variant; the daily simulator
\* returns stopped_early, true exactly when the stop fired; the weekly simulator
\* returns no such indicator.
C4_StoppedEarlyDailyOnly ==
    /\ (ret.returned /\ variant = "daily" =>
          /\ "stopped_early" \in DOMAIN ret
          /\ (ret.stopped_early <=> branch = "stop"))
    /\ (ret.returned /\ variant = "weekly" => "stopped_early" \notin DOMAIN ret)
    /\ (branch = "stop" /\ pc = "done" => raised = "none" /\ ret.returned)

\* a daily run that stopped has returned with the flag set
C4_Witness ==
    /\ variant = "daily" /\ branch = "stop" /\ pc = "done"
    /\ ret.returned /\ ret.stopped_early

\* C5 (as stated): with an open lot, a step at a valid price closes the position
\* exactly when price >= last_trade_price * (1 + tp_percent / 100), and otherwise
\* appends a lot at that price; in both simulators.
C5_TakeProfitTrigger ==
    [][ (Iterated /\ ~(row'.Close = NaN \/ row'.Close <= 0) /\ trade_prices # <<>>) =>
          IF row'.Close * 100 >= Last(trade_prices) * (100 + arg.tp_percent)
          THEN trade_prices' = <<>> /\ lot_sizes' = <<>>
          ELSE /\ trade_prices' = Append(trade_prices, row'.Close)
               /\ Len(lot_sizes') = Len(lot_sizes) + 1 ]_vars

\* C6: a take-profit close removes all lots and adds to cash_invest, besides the
\* step's periodic deposit, exactly sum(p * l) * (tp_percent / 100) * coeff * 100
\* * leverage / 1000, sum(p * l) being the size-weighted average price times the
\* total size of the lots open before the close.
C6_CloseRealizesProfit ==
    [][ Closes =>
          /\ lot_sizes' = <<>>
          /\ cash_invest' - cash_invest - StepDeposit =
                MulDiv(DotSeq(trade_prices, lot_sizes) * arg.tp_percent * arg.coeff,
                       arg.leverage, 1000) ]_vars

\* a close of two lots: the last three snapshots are an open, an append, a close
C6_Witness ==
    /\ branch = "tp" /\ Len(history) >= 3
    /\ Last(history).Profit_TP > 0
    /\ history[Len(history) - 1].Profit_TP = 0
    /\ history[Len(history) - 1].Average_Lot_Size > 0
    /\ history[Len(history) - 2].Average_Lot_Size > 0
    /\ history[Len(history) - 2].Close_Price # history[Len(history) - 1].Close_Price

\* C7: an iteration whose price is null or <= 0 changes nothing: lots, the three
\* balances, the current-week marker and the snapshot history stay as they were.
C7_SkippedStepChangesNothing ==
    [][ (Iterated /\ (row'.Close = NaN \/ row'.Close <= 0)) =>
          UNCHANGED <<trade_prices, lot_sizes, cash_invest, cash_saving,
                      cash_saving_interest, current_week, history>> ]_vars

\* a non-positive price met in a new week, with a lot open
C7_Witness ==
    /\ variant = "daily" /\ branch = "skip" /\ row.Close = 0
    /\ row.Week # current_week /\ trade_prices # <<>> /\ arg.invest_per_week > 0

\* C8 (as stated): an empty trajectory is not an error: the run returns an empty
\* snapshot sequence and three returns of 0.0, and its caller / post-processing
\* completes without raising.
C8_EmptyTrajectoryNoError ==
    (pc = "done" /\ history = <<>>) =>
        /\ raised = "none"
        /\ ret.returned
        /\ ret.result_df = <<>>
        /\ ret.ar_invest = ArZero /\ ret.ar_saving = ArZero
        /\ ret.ar_saving_interest = ArZero

\* the trajectory's first and last snapshot dates (weeks, weekly) coincide
SingleDay ==
    /\ history # <<>>
    /\ IF variant = "daily" THEN Last(history).Date = history[1].Date
                            ELSE Last(history).Week = history[1].Week

\* C9: when the first and last snapshot dates coincide, each of the three
\* annualized returns is the literal 0.0 and nothing is raised.
C9_ZeroDurationZeroReturn ==
    (SingleDay /\ pc \in {"caller", "done"}) =>
        /\ raised = "none"
        /\ ret.returned
        /\ ret.ar_invest = ArZero /\ ret.ar_saving = ArZero
        /\ ret.ar_saving_interest = ArZero

\* two snapshots on one date, the second a take-profit, returned
C9_Witness ==
    /\ variant = "daily" /\ pc = "done" /\ Len(history) >= 2
    /\ Last(history).Date = history[1].Date
    /\ Last(history).Profit_TP > 0
    /\ ret.returned

(***************************************************************************)
(* Properties of the window analysis (checked under SpecWindow)            *)
(***************************************************************************)
\* C10: every entry dated after (last date - horizon) has Max_Drawdown and
\* Max_Gain null, also when later observations lie inside its forward window.
C10_BeyondCutoffIsNull ==
    \A i \in DOMAIN max_drawdowns :
        (\E j \in DOMAIN wdata : wdata[i].Date > wdata[j].Date - 365 * wyears
             /\ \A k \in DOMAIN wdata : wdata[k].Date <= wdata[j].Date)
        => max_drawdowns[i] = NaN /\ max_gains[i] = NaN

\* a valid entry after the cutoff with a later valid price inside its window
C10_Witness ==
    /\ wpc = "done"
    /\ \E i \in DOMAIN wdata : \E j \in DOMAIN wdata :
          /\ wdata[i].Price > 0 /\ wdata[j].Price > 0
          /\ wdata[j].Date > wdata[i].Date
          /\ wdata[j].Date <= wdata[i].Date + 365 * wyears
          /\ wdata[i].Date > wdata[Len(wdata)].Date - 365 * wyears
          /\ max_drawdowns[i] = NaN /\ max_gains[i] = NaN

(***************************************************************************)
(* Properties of the unbounded-horizon analysis (checked under SpecWorst)  *)
(* and further properties of the window analysis (under SpecWindow)        *)
(***************************************************************************)
\* a usable observation: price present and > 0
ValidPrice(p) == p # NaN /\ p > 0

\* the bounded engine: a row with an output has a valid entry price, and the
\* output is the extreme return over the valid prices of its window only
BoundedUsesValidOnly ==
    \A i \in DOMAIN max_drawdowns :
        max_drawdowns[i] # NaN \/ max_gains[i] # NaN =>
            /\ ValidPrice(wdata[i].Price)
            /\ LET valid == {wdata[j].Price : j \in {k \in DOMAIN wdata :
                                /\ wdata[k].Date > wdata[i].Date
                                /\ wdata[k].Date <= wdata[i].Date + DaysPerYear * wyears
                                /\ ValidPrice(wdata[k].Price)}}
               IN  /\ valid # {}
                   /\ \E p \in valid :
                        max_drawdowns[i] = RoundSigned((p - wdata[i].Price) * 10000, wdata[i].Price)
                   /\ \E p \in valid :
                        max_gains[i] = RoundSigned((p - wdata[i].Price) * 10000, wdata[i].Price)

\* the unbounded engine: the same for Worst_Future_Gain_%
UnboundedUsesValidOnly ==
    \A i \in DOMAIN worst_losses :
        worst_losses[i] \notin {Null, NaN} =>
            /\ ValidPrice(udata[i])
            /\ \E j \in (i + 1)..Len(udata) :
                 /\ ValidPrice(udata[j])
                 /\ worst_losses[i] = RoundSigned((udata[j] - udata[i]) * 10000, udata[i])

\* C11: an observation whose price is missing or <= 0 (a negative price that
\* clean_data turned into 0 included) is never the entry price of a row with
\* a non-null output and never a future price behind an output, in the
\* bounded engine and in the unbounded engine.
C11_InvalidPriceNeverUsed == BoundedUsesValidOnly /\ UnboundedUsesValidOnly

\* the case: a cleaned negative price lies after a valid entry
C11_Witness ==
    /\ upc = "done"
    /\ \E i \in DOMAIN udata : \E j \in DOMAIN udata :
         i < j /\ ValidPrice(udata[i]) /\ uraw[j] # NaN /\ uraw[j] < 0 /\ udata[j] = 0

\* the valid prices of the forward window (entry_date, entry_date + horizon] of row i
ValidWindow(i) ==
    {wdata[j].Price : j \in {k \in DOMAIN wdata :
        /\ wdata[k].Date > wdata[i].Date
        /\ wdata[k].Date <= wdata[i].Date + DaysPerYear * wyears
        /\ ValidPrice(wdata[k].Price)}}

\* the return of a future price p from the entry of row i, as round(., 2) gives it
RoundedReturn(i, p) == RoundSigned((p - wdata[i].Price) * 10000, wdata[i].Price)

\* row i has been through the loop and has a valid entry price at or before
\* the cutoff and a valid price in its forward window
HasWindow(i) ==
    /\ wpc \in {"rows", "done"} /\ i < wi
    /\ ValidPrice(wdata[i].Price)
    /\ wdata[i].Date <= CutoffDate(wdata, wyears)
    /\ ValidWindow(i) # {}

\* C14: the bounded engine does not clamp signs: for every such row
\* Max_Drawdown is the least and Max_Gain the greatest of the forward
\* percentage returns (rounded to 2 decimals), so Max_Drawdown > 0 when every
\* future price is above the entry price and Max_Gain < 0 when every one is
\* below.
C14_NoSignClamp ==
    \A i \in DOMAIN wdata : HasWindow(i) =>
        /\ \E p \in ValidWindow(i) : max_drawdowns[i] = RoundedReturn(i, p)
        /\ \A p \in ValidWindow(i) : max_drawdowns[i] <= RoundedReturn(i, p)
        /\ \E p \in ValidWindow(i) : max_gains[i] = RoundedReturn(i, p)
        /\ \A p \in ValidWindow(i) : max_gains[i] >= RoundedReturn(i, p)
        /\ (\A p \in ValidWindow(i) : p > wdata[i].Price) => max_drawdowns[i] > 0
        /\ (\A p \in ValidWindow(i) : p < wdata[i].Price) => max_gains[i] < 0

\* the case: one row whose window lies wholly above its entry price and one
\* whose window lies wholly below
C14_Witness ==
    /\ wpc = "done"
    /\ \E i \in DOMAIN wdata : HasWindow(i) /\ max_drawdowns[i] > 0
    /\ \E i \in DOMAIN wdata : HasWindow(i) /\ max_gains[i] # NaN /\ max_gains[i] < 0

C13_WorstIsMinOverLater ==
    \A i \in DOMAIN worst_losses :
        /\ i = Len(udata) => worst_losses[i] = Null
        /\ (/\ i < Len(udata)
            /\ ValidPrice(udata[i])
            /\ \A j \in (i + 1)..Len(udata) : udata[j] # NaN) =>
               /\ \E j \in (i + 1)..Len(udata) :
                    worst_losses[i] = RoundSigned((udata[j] - udata[i]) * 10000, udata[i])
               /\ \A j \in (i + 1)..Len(udata) :
                    worst_losses[i] <= RoundSigned((udata[j] - udata[i]) * 10000, udata[i])

\* the example series and its result
C13_Witness ==
    /\ upc = "done"
    /\ udata = <<100, 110, 90, 95>>
    /\ worst_losses = <<-1000, -1818, 556, Null>>
    /\ uret.column = <<-1000, -1818, 556, NaN>>

\* C20: analyze_max_negative_gain raises no exception for a series that has
\* at least one non-null price (a single observation included).
C20_NoException ==
    (\E i \in DOMAIN udata : udata[i] # NaN) => uraised = "none"

(***************************************************************************)
(* Properties of the thresholds (checked under SpecThresholds)             *)
(***************************************************************************)
\* C12: the drawdown threshold of run_analysis is a number that is at least
\* -100, for every Max_Drawdown column (columns with no or one non-null
\* value included).
C12_ThresholdAtLeastFloor ==
    tpc \in {"thresholds", "called"} => dd_thresh # NaN /\ dd_thresh >= ThresholdFloor

\* the case: a column with exactly one non-null value
C12_Witness ==
    /\ tpc = "thresholds"
    /\ Len(NonNull(dd_column)) = 1

(***************************************************************************)
(* Properties of the normalization (checked under SpecNormalize)           *)
(***************************************************************************)
\* C16: every row of an instrument without an entry in the threshold map
\* gets Standardized_Drawdown exactly 0, never null, whatever its
\* Max_Drawdown, and is counted with 0 in the mean of its date.
C16_UnregisteredIsZero ==
    /\ \A i \in DOMAIN standardized :
         df_final[i].Symbol \notin DOMAIN worst_drawdown_dict => standardized[i] = 0
    /\ npc = "done" /\ nraised = "none" =>
         \A date \in DOMAIN df_drawdown_avg :
            LET unregistered == {i \in DOMAIN df_final :
                                    /\ df_final[i].Date = date
                                    /\ df_final[i].Symbol \notin DOMAIN worst_drawdown_dict}
                registered == {i \in DOMAIN df_final :
                                    /\ df_final[i].Date = date
                                    /\ df_final[i].Symbol \in DOMAIN worst_drawdown_dict
                                    /\ standardized[i] # NaN}
                values == [i \in DOMAIN df_final |->
                              IF i \in registered THEN standardized[i] ELSE 0]
            IN  /\ df_drawdown_avg[date].count =
                       Cardinality(unregistered) + Cardinality(registered)
                /\ df_drawdown_avg[date].sum = SumSeq(values)

\* the case: an unregistered instrument's row with a negative Max_Drawdown
\* shares its date with a registered instrument's row
C16_Witness ==
    /\ npc = "done" /\ nraised = "none"
    /\ \E i \in DOMAIN df_final : \E j \in DOMAIN df_final :
         /\ df_final[i].Symbol \notin DOMAIN worst_drawdown_dict
         /\ df_final[i].Max_Drawdown # NaN /\ df_final[i].Max_Drawdown < 0
         /\ df_final[j].Symbol \in DOMAIN worst_drawdown_dict
         /\ df_final[j].Date = df_final[i].Date
         /\ standardized[j] # NaN /\ standardized[j] > 0

\* C17: every Standardized_Drawdown is a number in [0, 100], for every row
\* (null Max_Drawdown included) and every registered threshold (0 and NaN
\* included), and computing it raises nothing.
C17_StandardizedInRange ==
    /\ nraised = "none"
    /\ \A i \in DOMAIN standardized :
         standardized[i] # NaN /\ standardized[i] >= 0 /\ standardized[i] <= Hundred

\* the case: a row with a negative Max_Drawdown whose registered threshold is NaN
C17_Witness ==
    /\ npc = "done"
    /\ \E i \in DOMAIN standardized :
         /\ df_final[i].Max_Drawdown # NaN /\ df_final[i].Max_Drawdown < 0
         /\ df_final[i].Symbol \in DOMAIN worst_drawdown_dict
         /\ worst_drawdown_dict[df_final[i].Symbol] = NaN

(***************************************************************************)
(* Properties of the pipeline (checked under SpecPipeline)                 *)
(***************************************************************************)
\* C18: in run_all_analyses insufficient data is never fatal: nothing is
\* raised, and when the run is over exactly the instruments with usable data
\* have a summary row.
C18_InsufficientDataNotFatal ==
    entry = "run_all_analyses" =>
        /\ praised = "none"
        /\ ppc = "done" =>
             \A k \in DOMAIN symbol_list :
                symbol_list[k].data = "valid" <=>
                    \E r \in DOMAIN final_summary : final_summary[r].Symbol = k

\* the case: an instrument with an all-null Close has been reached
C18_Witness ==
    /\ entry = "run_all_analyses" /\ ppc = "done"
    /\ pk \in DOMAIN symbol_list /\ symbol_list[pk].data = "allnull"

\* C19: a missing coeff_map entry never fails the run: the simulator is
\* called with the default 0.01 for such an instrument, in run_all_analyses
\* and in main, and every summary row reports the coefficient its simulator
\* call used.
C19_DefaultCoefficientUsedAndReported ==
    /\ praised # "TypeError"
    /\ \A c \in DOMAIN sim_calls :
         symbol_list[sim_calls[c].Symbol].coeff = None => sim_calls[c].coeff = DefaultCoeff
    /\ \A r \in DOMAIN final_summary : \E c \in DOMAIN sim_calls :
         /\ sim_calls[c].Symbol = final_summary[r].Symbol
         /\ sim_calls[c].coeff = final_summary[r].Coefficient

\* the case: run_all_analyses has summarised an instrument without an entry
C19_Witness ==
    /\ entry = "run_all_analyses"
    /\ \E r \in DOMAIN final_summary : symbol_list[final_summary[r].Symbol].coeff = None

\* C21: the std argument that run_analysis passes to the simulator is a
\* number > 0 for every Max_Drawdown column, so that the lot-size divisor
\* std * price * coeff is positive for a positive price and coefficient and
\* the stop level avg_price * (1 - std / 100) is below avg_price.
C21_StdStrictlyPositive ==
    tpc = "called" =>
        /\ std # NaN
        /\ std > 0
        /\ \A price \in {p \in Prices : ~IsSkipped(p)} : \A c \in Configs :
             std * price * c.coeff > 0
        /\ 1000 - std < 1000

\* the case: a column of two or more values, none of them negative
C21_Witness ==
    /\ tpc = "called"
    /\ Len(NonNull(dd_column)) >= 2
    /\ \A i \in DOMAIN dd_column : dd_column[i] = NaN \/ dd_column[i] > 0

\* C22: in both simulators every lot appended at price p has the size
\* max(round(cash_invest / (std * p * coeff), 2), 0.01), where cash_invest is the
\* investment balance after that step's period-open deposit, and every open lot
\* is at least 0.01.
C22_LotSizedAfterDeposit ==
    [][ /\ (Iterated /\ branch' \in {"open", "append", "stop"} =>
              Last(lot_sizes') = LotSize(cash_invest + StepDeposit, row'.Close, arg))
        /\ \A i \in DOMAIN lot_sizes' : lot_sizes'[i] >= 1 ]_vars

\* the case: a first weekly step whose deposit changes the rounded lot size
C22_Witness ==
    /\ variant = "weekly" /\ branch = "open" /\ Len(history) = 1
    /\ lot_sizes # <<>>
    /\ LotSize(arg.initial_balance, row.Close, arg)
         # LotSize(arg.initial_balance + arg.invest_per_week, row.Close, arg)

\* this step leaves the loop through the stop-loss break
StopStep == Iterated /\ pc = "loop" /\ pc' = "post"

\* this step appended a lot to a non-empty list of lots
AppendedToOpen ==
    /\ trade_prices # <<>>
    /\ Len(trade_prices') = Len(trade_prices) + 1
    /\ Len(lot_sizes') = Len(lot_sizes) + 1

\* p < avg_price * (1 - std / 100), avg_price over the lots after the step
BelowStopLevel ==
    row'.Close * 100 * SumSeq(lot_sizes')
        < DotSeq(trade_prices', lot_sizes') * (100 - arg.std)

\* C23: the stop fires exactly on a step that appended a lot to a non-empty list
\* of lots and whose price is below avg_price * (1 - std / 100), avg_price being
\* the weighted average that includes the new lot; it never fires on a step that
\* opens the first lot or on a take-profit step.
C23_StopOnlyAfterAppend ==
    [][ Iterated =>
          /\ (StopStep <=> (AppendedToOpen /\ BelowStopLevel))
          /\ (StopStep => branch' = "stop")
          /\ (branch' \in {"open", "tp", "skip"} => ~StopStep)
          /\ (variant = "daily" => (stopped_early' <=> StopStep)) ]_vars

\* the case: the stop fired on a lot appended to an open position
C23_Witness ==
    /\ branch = "stop" /\ pc = "post"
    /\ Len(trade_prices) >= 2
    /\ Last(trade_prices) = row.Close

\* no lot is open and the last snapshot is that of a take-profit close
\* (its Average_Lot_Size is 0.0 only when the lot list was empty)
JustClosed ==
    /\ trade_prices = <<>> /\ lot_sizes = <<>>
    /\ history # <<>> /\ Last(history).Average_Lot_Size = 0

\* C24: a take-profit step leaves no lot open and opens none; the next step with a
\* valid price then opens exactly one fresh lot at that price, whatever the price,
\* without a take-profit (no profit is realized) and without a stop (the loop goes on).
C24_FreshLotAfterClose ==
    [][ /\ (Iterated /\ branch' = "tp" =>
              /\ trade_prices' = <<>> /\ lot_sizes' = <<>>
              /\ Last(history').Average_Lot_Size = 0)
        /\ (Iterated /\ JustClosed /\ IsSkipped(row'.Close) =>
              trade_prices' = <<>> /\ lot_sizes' = <<>>)
        /\ (Iterated /\ JustClosed /\ ~IsSkipped(row'.Close) =>
              /\ branch' = "open"
              /\ trade_prices' = <<row'.Close>>
              /\ Len(lot_sizes') = 1
              /\ Len(history') = Len(history) + 1
              /\ Last(history').Profit_TP = 0
              /\ Last(history').Close_Price = row'.Close
              /\ pc' = pc) ]_vars

\* the case: a lot opened right after a take-profit close, at a price below the
\* closed position's last price
C24_Witness ==
    /\ branch = "open" /\ Len(history) >= 2
    /\ history[Len(history) - 1].Average_Lot_Size = 0
    /\ history[Len(history) - 1].Profit_TP > 0
    /\ trade_prices = <<row.Close>>
    /\ row.Close < history[Len(history) - 1].Close_Price

\* what a daily iteration does to the three balances when it makes the deposit
\* (made = TRUE) or not; the profit of a take-profit close goes to cash_invest only
DepositApplied(made) ==
    LET dep == IF made THEN arg.invest_per_week ELSE 0
        profit == IF branch' = "tp" THEN ProfitTP(trade_prices, lot_sizes, arg) ELSE 0
    IN  /\ cash_invest' = cash_invest + dep + profit
        /\ cash_saving' = cash_saving + dep
        /\ cash_saving_interest' =
              IF made THEN Compound(cash_saving_interest, arg.invest_per_week)
                      ELSE cash_saving_interest

\* the weeks for which the daily loop has made the deposit: those of the snapshots,
\* and that of the stop row (which has no snapshot)
DepositedWeeks ==
    Weeks(history) \cup (IF branch = "stop" THEN {row.Week} ELSE {})

\* C25 (as stated): in the daily simulator the deposit is made exactly once for
\* every distinct week that has an observation in the filtered range, i.e. on the
\* first observation of each week, whatever its price, adding it to cash_invest
\* and cash_saving and compounding cash_saving_interest at the same time.
C25_DepositEveryObservedWeek ==
    [][ Iterated /\ variant = "daily" => DepositApplied(row'.Week # row.Week) ]_vars

\* C25 (amended): the deposit is made exactly once for every distinct week that
\* has an observation with a valid price in the filtered range, on the first such
\* observation of the week; an observation with a null or non-positive price never
\* brings a deposit, so a week with no valid price gets none.
C25_DepositEveryValidWeek ==
    [][ Iterated /\ variant = "daily" =>
          /\ DepositApplied(~IsSkipped(row'.Close) /\ row'.Week # current_week)
          /\ (IsSkipped(row'.Close) => current_week' = current_week)
          /\ (~IsSkipped(row'.Close) => current_week' = row'.Week)
          /\ cash_saving' = arg.initial_balance
                              + arg.invest_per_week * Cardinality(DepositedWeeks') ]_vars

\* the case: after a week that got its deposit, the observation of a later week
\* has an invalid price and no deposit was made for it
C25_Witness ==
    /\ variant = "daily" /\ branch = "skip" /\ arg.invest_per_week > 0
    /\ history # <<>> /\ row.Week \notin Weeks(history)
    /\ cash_saving = arg.initial_balance + arg.invest_per_week * Cardinality(Weeks(history))

\* the snapshots recorded up to and including the i-th
UpTo(i) == SubSeq(history, 1, i)

\* initial_balance + periodic_deposit * (number of distinct periods among hist)
Contribution(hist) ==
    arg.initial_balance + arg.invest_per_week * Cardinality(Weeks(hist))

\* an annualized return whose value is 0.0: the literal of an early return, or
\* (1 ** x - 1) * 100 for a final value equal to a non-zero total contribution
IsZeroReturn(ar) ==
    \/ ar.kind = "zero"
    \/ ar.kind = "pow" /\ ar.total # 0 /\ ar.final = ar.total

\* C26: in every snapshot Cash_Saving is initial_balance + periodic_deposit * (number
\* of distinct periods among the snapshots so far); so the last snapshot's
\* Cash_Saving is the total_contribution of the annualized return, and the
\* plain-savings annualized return is 0.0 for every run that returns one, stopped
\* or not; and Cash_Saving_Interest >= Cash_Saving in every snapshot (the
\* configurations all have initial_balance >= 0 and periodic_deposit >= 0).
C26_SavingIsContribution ==
    /\ \A i \in DOMAIN history :
         /\ history[i].Cash_Saving = Contribution(UpTo(i))
         /\ history[i].Cash_Saving_Interest >= history[i].Cash_Saving
    /\ (ret.returned /\ ret.ar_saving.kind # "zero" =>
          ret.ar_saving.total = Last(history).Cash_Saving)
    /\ (ret.returned => IsZeroReturn(ret.ar_saving))

\* the case: a run with no money at all (initial_balance = 0, periodic_deposit = 0)
\* and a positive duration has returned
C26_Witness ==
    /\ ret.returned /\ Len(history) >= 2
    /\ arg.initial_balance = 0 /\ arg.invest_per_week = 0
    /\ ret.ar_saving.kind # "zero"

====
